---- MODULE Spec2Model ----
(***************************************************************************)
(* Slot booking service: the Express route handlers of                     *)
(* backend/routes/slots.js over the Mongoose Slot schema.                  *)
(*                                                                         *)
(* Strings of the program are sequences of one-character strings, so that  *)
(* split, parseInt, trim and the schema's regular expression are computed  *)
(* character by character.  The empty sequence stands for a field that is  *)
(* absent from a request body (undefined) or empty: both are falsy in the  *)
(* handlers' tests.  Instants are counted in minutes since 1970-01-01      *)
(* 00:00 UTC.                                                              *)
(***************************************************************************)
EXTENDS Integers, Sequences, FiniteSets, TLC

\* ---------------------------------------------------------------------
\* Bounds of the model

\* number of slot ids the store hands out
MaxSlots == 1

\* ---------------------------------------------------------------------
\* String helpers (JavaScript String / parseInt semantics)

Digits == <<"0", "1", "2", "3", "4", "5", "6", "7", "8", "9">>

IsDigit(c) == \E i \in 1..10 : Digits[i] = c

DigitVal(c) == (CHOOSE i \in 1..10 : Digits[i] = c) - 1

\* Number.prototype.toString for an integer, as the template literal renders it
RECURSIVE NatToStr(_)
NatToStr(n) ==
  IF n < 10 THEN <<Digits[n + 1]>>
  ELSE NatToStr(n \div 10) \o <<Digits[(n % 10) + 1]>>

IntToStr(n) == IF n < 0 THEN <<"-">> \o NatToStr(0 - n) ELSE NatToStr(n)

\* String.prototype.split(sep) for a one-character separator
RECURSIVE Split(_, _)
Split(s, sep) ==
  IF \A i \in 1..Len(s) : s[i] # sep THEN <<s>>
  ELSE LET k == CHOOSE i \in 1..Len(s) :
                  s[i] = sep /\ \A j \in 1..(i - 1) : s[j] # sep
       IN  <<SubSeq(s, 1, k - 1)>> \o Split(SubSeq(s, k + 1, Len(s)), sep)

\* String.prototype.trim (the schema's trim: true)
RECURSIVE TrimLeft(_)
TrimLeft(s) ==
  IF s # <<>> /\ s[1] = " " THEN TrimLeft(Tail(s)) ELSE s

RECURSIVE TrimRight(_)
TrimRight(s) ==
  IF s # <<>> /\ s[Len(s)] = " " THEN TrimRight(SubSeq(s, 1, Len(s) - 1)) ELSE s

Trim(s) == TrimRight(TrimLeft(s))

\* the longest prefix of s made of digits
RECURSIVE DigitPrefix(_)
DigitPrefix(s) ==
  IF s # <<>> /\ IsDigit(s[1]) THEN <<s[1]>> \o DigitPrefix(Tail(s)) ELSE <<>>

RECURSIVE DigitsToNat(_, _)
DigitsToNat(s, acc) ==
  IF s = <<>> THEN acc ELSE DigitsToNat(Tail(s), 10 * acc + DigitVal(s[1]))

\* parseInt(s, 10): leading blanks, an optional sign, then the digits that
\* follow; NaN when there is none
parseInt(s) ==
  LET t    == TrimLeft(s)
      neg  == t # <<>> /\ t[1] = "-"
      body == IF t # <<>> /\ t[1] \in {"-", "+"} THEN Tail(t) ELSE t
      ds   == DigitPrefix(body)
  IN  IF ds = <<>> THEN [nan |-> TRUE, val |-> 0]
      ELSE [nan |-> FALSE,
            val |-> IF neg THEN 0 - DigitsToNat(ds, 0) ELSE DigitsToNat(ds, 0)]

\* the % operator of JavaScript: the remainder takes the dividend's sign
JsRem(a, b) == IF a >= 0 THEN a % b ELSE 0 - ((0 - a) % b)

\* ---------------------------------------------------------------------
\* convertTo12Hour

\* a destructured element that does not exist renders as "undefined"
UndefinedStr == <<"u", "n", "d", "e", "f", "i", "n", "e", "d">>

convertTo12HourPmAfterNoon(time24) ==
  LET parts   == Split(time24, ":")
      hours   == parts[1]
      minutes == IF Len(parts) >= 2 THEN parts[2] ELSE UndefinedStr
      hourNum == parseInt(hours)
      period  == IF ~hourNum.nan /\ hourNum.val > 12 THEN <<"P", "M">>
                 ELSE <<"A", "M">>
      rem     == IF hourNum.nan THEN 0 ELSE JsRem(hourNum.val, 12)
      hour12  == IF rem = 0 THEN 12 ELSE rem
  IN  IntToStr(hour12) \o <<":">> \o minutes \o <<" ">> \o period

convertTo12Hour(time24) ==
  LET parts   == Split(time24, ":")
      hours   == parts[1]
      minutes == IF Len(parts) >= 2 THEN parts[2] ELSE UndefinedStr
      hourNum == parseInt(hours)
      period  == IF ~hourNum.nan /\ hourNum.val >= 12 THEN <<"P", "M">>
                 ELSE <<"A", "M">>
      rem     == IF hourNum.nan THEN 0 ELSE JsRem(hourNum.val, 12)
      hour12  == IF rem = 0 THEN 12 ELSE rem
  IN  IntToStr(hour12) \o <<":">> \o minutes \o <<" ">> \o period

\* the schema's pattern /^((1[0-2]|0?[1-9]):([0-5][0-9]) ?([AP]M))$/
HourPart(h) ==
  \/ Len(h) = 2 /\ h[1] = "1" /\ h[2] \in {"0", "1", "2"}
  \/ Len(h) = 2 /\ h[1] = "0" /\ IsDigit(h[2]) /\ h[2] # "0"
  \/ Len(h) = 1 /\ IsDigit(h[1]) /\ h[1] # "0"

MinutePart(m) ==
  Len(m) = 2 /\ m[1] \in {"0", "1", "2", "3", "4", "5"} /\ IsDigit(m[2])

PeriodPart(p) ==
  \/ Len(p) = 2 /\ p[1] \in {"A", "P"} /\ p[2] = "M"
  \/ Len(p) = 3 /\ p[1] = " " /\ p[2] \in {"A", "P"} /\ p[3] = "M"

MatchesTimePattern(s) ==
  \E k \in 2..3 :
     /\ Len(s) >= k + 2
     /\ s[k] = ":"
     /\ HourPart(SubSeq(s, 1, k - 1))
     /\ MinutePart(SubSeq(s, k + 1, k + 2))
     /\ PeriodPart(SubSeq(s, k + 3, Len(s)))

\* ---------------------------------------------------------------------
\* Dates (JavaScript Date; instants in minutes since the epoch)

MinutesPerDay == 1440

\* days since 1970-01-01 of a day of the proleptic Gregorian calendar
DaysFromCivil(y, m, d) ==
  LET yy  == IF m <= 2 THEN y - 1 ELSE y
      era == yy \div 400
      yoe == yy - era * 400
      mp  == IF m > 2 THEN m - 3 ELSE m + 9
      doy == (153 * mp + 2) \div 5 + d - 1
      doe == yoe * 365 + yoe \div 4 - yoe \div 100 + doy
  IN  era * 146097 + doe - 719468

\* the calendar day [y, m, d] of a day number
CivilFromDays(z) ==
  LET zz  == z + 719468
      era == zz \div 146097
      doe == zz - era * 146097
      yoe == (doe - doe \div 1460 + doe \div 36524 - doe \div 146096) \div 365
      doy == doe - (365 * yoe + yoe \div 4 - yoe \div 100)
      mp  == (5 * doy + 2) \div 153
      d   == doy - (153 * mp + 2) \div 5 + 1
      m   == IF mp < 10 THEN mp + 3 ELSE mp - 9
      y   == yoe + era * 400
  IN  [y |-> IF m <= 2 THEN y + 1 ELSE y, m |-> m, d |-> d]

\* an instant, or the Invalid Date
InvalidDate == [valid |-> FALSE, t |-> 0]

Instant(t) == [valid |-> TRUE, t |-> t]

\* new Date(dateStr) for an ISO 8601 string: the wall-clock reading
\* y-m-d hh:mi at the UTC offset off (in minutes, east positive); a string
\* that is no date gives the Invalid Date
ParseDate(dateStr) ==
  IF ~dateStr.wellFormed THEN InvalidDate
  ELSE Instant(DaysFromCivil(dateStr.y, dateStr.m, dateStr.d) * MinutesPerDay
               + dateStr.hh * 60 + dateStr.mi - dateStr.off)

getUTCFullYear(date) == CivilFromDays(date.t \div MinutesPerDay).y

\* months count from 0
getUTCMonth(date)    == CivilFromDays(date.t \div MinutesPerDay).m - 1

getUTCDate(date)     == CivilFromDays(date.t \div MinutesPerDay).d

\* Date.UTC(year, month, day): a year in 0..99 stands for 1900 + year
DateUTC(year, month, day) ==
  LET full == IF year >= 0 /\ year <= 99 THEN 1900 + year ELSE year
  IN  DaysFromCivil(full, month + 1, day) * MinutesPerDay

normalizeDate(dateStr) ==
  LET date == ParseDate(dateStr)
  IN  IF ~date.valid THEN InvalidDate
      ELSE Instant(DateUTC(getUTCFullYear(date), getUTCMonth(date), getUTCDate(date)))

\* date.toISOString().split('T')[0]: the UTC day of the instant, YYYY-MM-DD
IsoDay(date) == CivilFromDays(date.t \div MinutesPerDay)

\* the ISO string of a Date, as a value new Date() reads back
ToIsoInput(date) ==
  LET c == CivilFromDays(date.t \div MinutesPerDay)
      r == date.t % MinutesPerDay
  IN  [wellFormed |-> TRUE, y |-> c.y, m |-> c.m, d |-> c.d,
       hh |-> r \div 60, mi |-> r % 60, off |-> 0]

\* ---------------------------------------------------------------------
\* Request inputs

\* JavaScript null or undefined: a document or a body field that is not there
Null == [null |-> TRUE]

\* the concurrent request handlers
Procs == {"r1", "r2"}

\* Event ids: "E1" is an Event of the store, "E2" is a well-formed id of no
\* Event, "zz" is no ObjectId; "" is a missing eventId
ExistingEvents == {"E1"}

MalformedEventIds == {"zz"}

EventIdInputs == {"E1", "E2", "zz"}

\* the administrator adminAuth puts in req.user.id
Admins == {"root"}

\* a path id that is no ObjectId
BadId == 0

SlotIdInputs == 0..MaxSlots

D(y, m, d, hh, mi, off) ==
  [wellFormed |-> TRUE, y |-> y, m |-> m, d |-> d, hh |-> hh, mi |-> mi, off |-> off]

\* "2024-03-01" and "2024-03-01T23:30-05:00"
DateInputs == {D(2024, 3, 1, 0, 0, 0), D(2024, 3, 1, 23, 30, -300)}

\* "14:30" and "2:30 PM"
StartTimeInputs ==
  {<<"1", "4", ":", "3", "0">>, <<"2", ":", "3", "0", " ", "P", "M">>}

\* "15:00"
EndTimeInputs == {<<"1", "5", ":", "0", "0">>}

\* "hi" and " hi "
PurposeInputs == {<<"h", "i">>, <<" ", "h", "i", " ">>}

\* a body with every field of a create; status and bookedBy are fields
\* the handler does not ask for ("" and Null: the body does not carry them)
FullBodies ==
  [eventId : {"E1"}, date : DateInputs, startTime : StartTimeInputs,
   endTime : EndTimeInputs, purpose : PurposeInputs,
   status : {""}, bookedBy : {Null}]

BaseBody ==
  [eventId |-> "E1", date |-> D(2024, 3, 1, 0, 0, 0),
   startTime |-> <<"1", "4", ":", "3", "0">>,
   endTime |-> <<"1", "5", ":", "0", "0">>, purpose |-> <<"h", "i">>,
   status |-> "", bookedBy |-> Null]

\* the bodies of POST /: the full ones, the base body with one field
\* missing, the base body with an eventId of no Event, and the base body
\* carrying {status: 'booked', bookedBy: {name: 'al', ...}} as well
CreateBodies ==
  FullBodies
  \cup {[BaseBody EXCEPT !.eventId = e] : e \in {"E2", "zz", ""}}
  \cup {[BaseBody EXCEPT !.date = Null], [BaseBody EXCEPT !.startTime = <<>>],
        [BaseBody EXCEPT !.endTime = <<>>], [BaseBody EXCEPT !.purpose = <<>>]}
  \cup {[BaseBody EXCEPT !.status = "booked",
                         !.bookedBy = [name |-> <<"a", "l">>,
                                       email |-> <<"a", "@", "x">>,
                                       enrollment |-> <<"1">>]]}

EmptyUpdate == [date |-> Null, startTime |-> <<>>, endTime |-> <<>>, purpose |-> <<>>]

\* the bodies of PUT /:id: no field, one field, or all four
UpdateBodies ==
  {EmptyUpdate}
  \cup {[EmptyUpdate EXCEPT !.date = d] : d \in DateInputs}
  \cup {[EmptyUpdate EXCEPT !.startTime = t] : t \in StartTimeInputs}
  \cup {[EmptyUpdate EXCEPT !.endTime = t] : t \in EndTimeInputs}
  \cup {[EmptyUpdate EXCEPT !.purpose = u] : u \in PurposeInputs}
  \cup {[date |-> BaseBody.date, startTime |-> BaseBody.startTime,
         endTime |-> BaseBody.endTime, purpose |-> BaseBody.purpose]}

\* {name: "al", ...}, {name: " bo", ...} and a body without email
BookBodies ==
  {[name |-> <<"a", "l">>, email |-> <<"a", "@", "x">>, enrollment |-> <<"1">>],
   [name |-> <<" ", "b", "o">>, email |-> <<"b", "@", "x">>, enrollment |-> <<"2">>],
   [name |-> <<"a", "l">>, email |-> <<>>, enrollment |-> <<"1">>]}

\* ---------------------------------------------------------------------
\* State

VARIABLES
  store,    \* the Slot collection: slot id -> document, Null when there is none
  nextId,   \* how many slot ids have been generated
  pc,       \* per handler: where its request stands
  req,      \* per handler: the request it serves
  doc,      \* per handler: the paths its in-memory document has modified
  resp,     \* per handler: the response it sent
  ops,      \* per handler: the store operations its request has issued
  timeIn,   \* conversion harness: the time string supplied
  timeOut,  \* conversion harness: the converted string
  dateIn,   \* normalization harness: the date supplied
  dateOut   \* normalization harness: the normalized Date

svars == <<store, nextId, pc, req, doc, resp, ops>>

hvars == <<timeIn, timeOut, dateIn, dateOut>>

vars == <<store, nextId, pc, req, doc, resp, ops, timeIn, timeOut, dateIn, dateOut>>

NoReq == [kind |-> "none", id |-> 0, body |-> Null]

NoResp == [code |-> 0, body |-> Null]

\* the paths a document has modified: none
NoDoc == <<>>

\* ---------------------------------------------------------------------
\* Slot schema (models/Slot.js)

\* new Slot({...}): setters trim purpose, bookedBy is left empty
NewSlot(eventId, date, startTime, endTime, purpose, createdBy) ==
  [eventId |-> eventId, date |-> date, startTime |-> startTime,
   endTime |-> endTime, purpose |-> Trim(purpose), status |-> "available",
   bookedBy |-> Null, createdBy |-> createdBy]

\* validation run by save() on the paths it is about to write
ValidPathsNoPattern(d) ==
  /\ ("eventId" \in DOMAIN d => d.eventId # "")
  /\ ("date" \in DOMAIN d => d.date.valid)
  /\ ("startTime" \in DOMAIN d => d.startTime # <<>>)
  /\ ("endTime" \in DOMAIN d => d.endTime # <<>>)
  /\ ("purpose" \in DOMAIN d => d.purpose # <<>>)
  /\ ("status" \in DOMAIN d => d.status \in {"available", "booked"})

ValidPaths(d) ==
  /\ ("eventId" \in DOMAIN d => d.eventId # "")
  /\ ("date" \in DOMAIN d => d.date.valid)
  /\ ("startTime" \in DOMAIN d => d.startTime # <<>> /\ MatchesTimePattern(d.startTime))
  /\ ("endTime" \in DOMAIN d => d.endTime # <<>> /\ MatchesTimePattern(d.endTime))
  /\ ("purpose" \in DOMAIN d => d.purpose # <<>>)
  /\ ("status" \in DOMAIN d => d.status \in {"available", "booked"})

\* the document after $set of the modified paths
ApplyPathsFirstBookingWins(slot, d) ==
  IF "bookedBy" \in DOMAIN d /\ d.bookedBy # Null /\ slot.bookedBy # Null
    THEN slot
    ELSE [f \in DOMAIN slot |-> IF f \in DOMAIN d THEN d[f] ELSE slot[f]]

ApplyPaths(slot, d) ==
  [f \in DOMAIN slot |-> IF f \in DOMAIN d THEN d[f] ELSE slot[f]]

\* slotSchema.methods.toJSON: the document with date as YYYY-MM-DD
toJSON(id, slot) ==
  [id |-> id, eventId |-> slot.eventId, date |-> IsoDay(slot.date),
   startTime |-> slot.startTime, endTime |-> slot.endTime,
   purpose |-> slot.purpose, status |-> slot.status,
   bookedBy |-> slot.bookedBy, createdBy |-> slot.createdBy]

\* res.json(doc) of a findById result
JsonOf(id) == IF store[id] = Null THEN Null ELSE toJSON(id, store[id])

\* Slot.findById(id): the id casts to an ObjectId and a document has it
Found(id) == id # BadId /\ store[id] # Null

\* one handler's variables change, the others' stay
Respond(p, code, body) ==
  /\ pc' = [pc EXCEPT ![p] = "done"]
  /\ resp' = [resp EXCEPT ![p] = [code |-> code, body |-> body]]

Issue(p, names) == ops' = [ops EXCEPT ![p] = ops[p] \o names]

\* ---------------------------------------------------------------------
\* Initial state

InitService ==
  /\ store = [i \in 1..MaxSlots |-> Null]
  /\ nextId = 0
  /\ pc = [p \in Procs |-> "idle"]
  /\ req = [p \in Procs |-> NoReq]
  /\ doc = [p \in Procs |-> NoDoc]
  /\ resp = [p \in Procs |-> NoResp]
  /\ ops = [p \in Procs |-> <<>>]

Init ==
  /\ InitService
  /\ timeIn = <<>>
  /\ timeOut = <<>>
  /\ dateIn = Null
  /\ dateOut = Null

\* ---------------------------------------------------------------------
\* GET /, GET /event/:eventId, GET /:id
\* (of the array a list answers, the model keeps the ids of its slots)

List(p) ==
  /\ pc[p] = "idle"
  /\ req' = [req EXCEPT ![p] = [kind |-> "list", id |-> 0, body |-> Null]]
  /\ Issue(p, <<"Slot.find", "populate">>)
  /\ Respond(p, 200, {i \in 1..MaxSlots : store[i] # Null})
  /\ UNCHANGED <<store, nextId, doc, hvars>>

ListByEvent(p, eventId) ==
  /\ pc[p] = "idle"
  /\ req' = [req EXCEPT ![p] = [kind |-> "listByEvent", id |-> 0, body |-> eventId]]
  /\ IF eventId \in MalformedEventIds
       THEN /\ Issue(p, <<"Slot.find">>)
            /\ Respond(p, 500, Null)
       ELSE /\ Issue(p, <<"Slot.find", "populate">>)
            /\ Respond(p, 200,
                 {i \in 1..MaxSlots : store[i] # Null /\ store[i].eventId = eventId})
  /\ UNCHANGED <<store, nextId, doc, hvars>>

Get(p, id) ==
  /\ pc[p] = "idle"
  /\ req' = [req EXCEPT ![p] = [kind |-> "get", id |-> id, body |-> Null]]
  /\ IF ~Found(id)
       THEN /\ Issue(p, <<"Slot.findById">>)
            /\ Respond(p, 404, Null)
       ELSE /\ Issue(p, <<"Slot.findById", "populate">>)
            /\ Respond(p, 200, JsonOf(id))
  /\ UNCHANGED <<store, nextId, doc, hvars>>

\* ---------------------------------------------------------------------
\* POST / (create)

MissingCreateFieldButPurpose(body) ==
  \/ body.eventId = ""
  \/ body.date = Null
  \/ body.startTime = <<>>
  \/ body.endTime = <<>>

MissingCreateField(body) ==
  \/ body.eventId = ""
  \/ body.date = Null
  \/ body.startTime = <<>>
  \/ body.endTime = <<>>
  \/ body.purpose = <<>>

\* from the request to the answer of Event.findById
CreateStart(p, body, user) ==
  /\ pc[p] = "idle"
  /\ req' = [req EXCEPT ![p] = [kind |-> "create", id |-> 0, body |-> body, user |-> user]]
  /\ IF MissingCreateField(body)
       THEN /\ Respond(p, 400, Null)
            /\ ops' = ops
       ELSE IF body.eventId \in MalformedEventIds
       THEN /\ Issue(p, <<"Event.findById">>)
            /\ Respond(p, 500, Null)
       ELSE IF body.eventId \notin ExistingEvents
       THEN /\ Issue(p, <<"Event.findById">>)
            /\ Respond(p, 404, Null)
       ELSE /\ nextId + Cardinality({q \in Procs : pc[q] = "create_save"}) < MaxSlots
            /\ Issue(p, <<"Event.findById">>)
            /\ pc' = [pc EXCEPT ![p] = "create_save"]
            /\ resp' = resp
  /\ UNCHANGED <<store, nextId, doc, hvars>>

\* the save of the new document
CreateSaveSpreadsBody(p) ==
  /\ pc[p] = "create_save"
  /\ LET body == req[p].body
         made == NewSlot(body.eventId, normalizeDate(body.date),
                         convertTo12Hour(body.startTime),
                         convertTo12Hour(body.endTime),
                         body.purpose, req[p].user)
         slot == IF body.status = "" THEN made
                 ELSE [made EXCEPT !.status = body.status,
                                   !.bookedBy = body.bookedBy]
     IN  IF ~ValidPaths(slot)
           THEN /\ Respond(p, 500, Null)
                /\ UNCHANGED <<store, nextId, req, ops>>
           ELSE /\ store' = [store EXCEPT ![nextId + 1] = slot]
                /\ nextId' = nextId + 1
                /\ req' = [req EXCEPT ![p].id = nextId + 1]
                /\ Issue(p, <<"Slot.save">>)
                /\ pc' = [pc EXCEPT ![p] = "create_reread"]
                /\ resp' = resp
  /\ UNCHANGED <<doc, hvars>>

\* normalize, convert, new Slot, slot.save()
CreateSave(p) ==
  /\ pc[p] = "create_save"
  /\ LET body == req[p].body
         slot == NewSlot(body.eventId, normalizeDate(body.date),
                         convertTo12Hour(body.startTime),
                         convertTo12Hour(body.endTime),
                         body.purpose, req[p].user)
     IN  IF ~ValidPaths(slot)
           THEN /\ Respond(p, 500, Null)
                /\ UNCHANGED <<store, nextId, req, ops>>
           ELSE /\ store' = [store EXCEPT ![nextId + 1] = slot]
                /\ nextId' = nextId + 1
                /\ req' = [req EXCEPT ![p].id = nextId + 1]
                /\ Issue(p, <<"Slot.save">>)
                /\ pc' = [pc EXCEPT ![p] = "create_reread"]
                /\ resp' = resp
  /\ UNCHANGED <<doc, hvars>>

\* the re-read of the document just saved
RereadTwice(p, at, code) ==
  /\ pc[p] = at
  /\ IF store[req[p].id] = Null
       THEN Issue(p, <<"Slot.findById">>)
       ELSE Issue(p, <<"Slot.findById", "populate", "Slot.findById">>)
  /\ Respond(p, code, JsonOf(req[p].id))
  /\ UNCHANGED <<store, nextId, req, doc, hvars>>

\* Slot.findById(slot._id).populate('eventId'), then the response
Reread(p, at, code) ==
  /\ pc[p] = at
  /\ IF store[req[p].id] = Null
       THEN Issue(p, <<"Slot.findById">>)
       ELSE Issue(p, <<"Slot.findById", "populate">>)
  /\ Respond(p, code, JsonOf(req[p].id))
  /\ UNCHANGED <<store, nextId, req, doc, hvars>>

CreateReread(p) == Reread(p, "create_reread", 201)

\* ---------------------------------------------------------------------
\* Document.save() of a document read earlier

\* save() sends the modified paths as one update of the document.  When
\* the document has been deleted since it was read, the update matches
\* nothing: depending on the Mongoose release save() then throws
\* (DocumentNotFoundError, answered 500) or resolves as if it had written.
SaveModified(p, next) ==
  LET id == req[p].id
  IN  /\ doc' = [doc EXCEPT ![p] = NoDoc]
      /\ IF ~ValidPaths(doc[p])
           THEN /\ Respond(p, 500, Null)
                /\ UNCHANGED <<store, ops>>
           ELSE IF doc[p] = NoDoc
           THEN /\ pc' = [pc EXCEPT ![p] = next]
                /\ UNCHANGED <<store, ops, resp>>
           ELSE IF store[id] = Null
           THEN /\ Issue(p, <<"Slot.save">>)
                /\ store' = store
                /\ \/ Respond(p, 500, Null)
                   \/ /\ pc' = [pc EXCEPT ![p] = next]
                      /\ resp' = resp
           ELSE /\ Issue(p, <<"Slot.save">>)
                /\ store' = [store EXCEPT ![id] = ApplyPaths(store[id], doc[p])]
                /\ pc' = [pc EXCEPT ![p] = next]
                /\ resp' = resp

\* ---------------------------------------------------------------------
\* PUT /:id (update)

\* the values the handler assigns for the fields the body supplies
AssignedWithStatus(body) ==
  [f \in {g \in {"date", "startTime", "endTime", "purpose"} :
            body[g] # (IF g = "date" THEN Null ELSE <<>>)} \cup {"status"} |->
     IF f = "status" THEN "available"
     ELSE IF f = "date" THEN normalizeDate(body.date)
     ELSE IF f = "purpose" THEN Trim(body.purpose)
     ELSE convertTo12Hour(body[f])]

Assigned(body) ==
  [f \in {g \in {"date", "startTime", "endTime", "purpose"} :
            body[g] # (IF g = "date" THEN Null ELSE <<>>)} |->
     IF f = "date" THEN normalizeDate(body.date)
     ELSE IF f = "purpose" THEN Trim(body.purpose)
     ELSE convertTo12Hour(body[f])]

\* a path is modified when the value assigned differs from the one read
Modified(slot, assigned) ==
  [f \in {g \in DOMAIN assigned : assigned[g] # slot[g]} |-> assigned[f]]

\* from the request to the assignments made on the document read
UpdateRead(p, id, body, user) ==
  /\ pc[p] = "idle"
  /\ req' = [req EXCEPT ![p] = [kind |-> "update", id |-> id, body |-> body, user |-> user]]
  /\ Issue(p, <<"Slot.findById">>)
  /\ IF ~Found(id)
       THEN /\ Respond(p, 404, Null)
            /\ doc' = doc
       ELSE /\ doc' = [doc EXCEPT ![p] = Modified(store[id], Assigned(body))]
            /\ pc' = [pc EXCEPT ![p] = "update_save"]
            /\ resp' = resp
  /\ UNCHANGED <<store, nextId, hvars>>

UpdateSave(p) ==
  /\ pc[p] = "update_save"
  /\ SaveModified(p, "update_reread")
  /\ req' = [req EXCEPT ![p].body = Null]
  /\ UNCHANGED <<nextId, hvars>>

UpdateReread(p) == Reread(p, "update_reread", 200)

\* ---------------------------------------------------------------------
\* DELETE /:id

DeleteRead(p, id, user) ==
  /\ pc[p] = "idle"
  /\ req' = [req EXCEPT ![p] = [kind |-> "delete", id |-> id, body |-> Null, user |-> user]]
  /\ Issue(p, <<"Slot.findById">>)
  /\ IF ~Found(id)
       THEN Respond(p, 404, Null)
       ELSE /\ pc' = [pc EXCEPT ![p] = "delete_remove"]
            /\ resp' = resp
  /\ UNCHANGED <<store, nextId, doc, hvars>>

\* slot.deleteOne(), then the response
DeleteRemoveKeepsSlot(p) ==
  /\ pc[p] = "delete_remove"
  /\ Issue(p, <<"Slot.deleteOne">>)
  /\ store' = store
  /\ Respond(p, 200, Null)
  /\ UNCHANGED <<nextId, req, doc, hvars>>

DeleteRemove(p) ==
  /\ pc[p] = "delete_remove"
  /\ Issue(p, <<"Slot.deleteOne">>)
  /\ store' = [store EXCEPT ![req[p].id] = Null]
  /\ Respond(p, 200, Null)
  /\ UNCHANGED <<nextId, req, doc, hvars>>

\* ---------------------------------------------------------------------
\* POST /:id/book

MissingBookField(body) ==
  body.name = <<>> \/ body.email = <<>> \/ body.enrollment = <<>>

\* the reading of Date.now(): it is written into bookedBy and no handler
\* ever reads it back, so the model keeps one reading for all
Timestamp == "Date.now()"

\* the bookedBy the handler assigns; the schema trims its strings
BookedByUntrimmed(body) ==
  [name |-> body.name, email |-> body.email,
   enrollment |-> body.enrollment, bookedAt |-> Timestamp]

BookedBy(body) ==
  [name |-> Trim(body.name), email |-> Trim(body.email),
   enrollment |-> Trim(body.enrollment), bookedAt |-> Timestamp]

\* slot.status = 'booked'; slot.bookedBy = {...}
BookPathsNoIdentity(body) == [status |-> "booked"]

BookPaths(body) == [status |-> "booked", bookedBy |-> BookedBy(body)]

\* from the request to the assignments made on the document read
BookReadAssignsFirst(p, id, body) ==
  /\ pc[p] = "idle"
  /\ req' = [req EXCEPT ![p] = [kind |-> "book", id |-> id, body |-> body]]
  /\ IF MissingBookField(body)
       THEN /\ Respond(p, 400, Null)
            /\ UNCHANGED <<ops, doc, store>>
       ELSE IF ~Found(id)
       THEN /\ Issue(p, <<"Slot.findById">>)
            /\ Respond(p, 404, Null)
            /\ UNCHANGED <<doc, store>>
       ELSE IF store[id].status # "available"
       THEN /\ Issue(p, <<"Slot.findById", "Slot.save">>)
            /\ store' = [store EXCEPT ![id] = ApplyPaths(store[id], BookPaths(body))]
            /\ Respond(p, 400, Null)
            /\ doc' = doc
       ELSE /\ Issue(p, <<"Slot.findById">>)
            /\ doc' = [doc EXCEPT ![p] = BookPaths(body)]
            /\ pc' = [pc EXCEPT ![p] = "book_save"]
            /\ UNCHANGED <<resp, store>>
  /\ UNCHANGED <<nextId, hvars>>

BookRead(p, id, body) ==
  /\ pc[p] = "idle"
  /\ req' = [req EXCEPT ![p] = [kind |-> "book", id |-> id, body |-> body]]
  /\ IF MissingBookField(body)
       THEN /\ Respond(p, 400, Null)
            /\ UNCHANGED <<ops, doc>>
       ELSE IF ~Found(id)
       THEN /\ Issue(p, <<"Slot.findById">>)
            /\ Respond(p, 404, Null)
            /\ doc' = doc
       ELSE IF store[id].status # "available"
       THEN /\ Issue(p, <<"Slot.findById">>)
            /\ Respond(p, 400, Null)
            /\ doc' = doc
       ELSE /\ Issue(p, <<"Slot.findById">>)
            /\ doc' = [doc EXCEPT ![p] = BookPaths(body)]
            /\ pc' = [pc EXCEPT ![p] = "book_save"]
            /\ resp' = resp
  /\ UNCHANGED <<store, nextId, hvars>>

BookSave(p) ==
  /\ pc[p] = "book_save"
  /\ SaveModified(p, "book_reread")
  /\ UNCHANGED <<nextId, req, hvars>>

BookReread(p) == Reread(p, "book_reread", 200)

\* ---------------------------------------------------------------------
\* PUT /:id/cancel

\* slot.status = 'available'; slot.bookedBy = null
CancelPathsStatusOnly == [status |-> "available"]

CancelPaths == [status |-> "available", bookedBy |-> Null]

CancelRead(p, id, user) ==
  /\ pc[p] = "idle"
  /\ req' = [req EXCEPT ![p] = [kind |-> "cancel", id |-> id, body |-> Null, user |-> user]]
  /\ Issue(p, <<"Slot.findById">>)
  /\ IF ~Found(id)
       THEN /\ Respond(p, 404, Null)
            /\ doc' = doc
       ELSE IF store[id].status # "booked"
       THEN /\ Respond(p, 400, Null)
            /\ doc' = doc
       ELSE /\ doc' = [doc EXCEPT ![p] = CancelPaths]
            /\ pc' = [pc EXCEPT ![p] = "cancel_save"]
            /\ resp' = resp
  /\ UNCHANGED <<store, nextId, hvars>>

CancelSave(p) ==
  /\ pc[p] = "cancel_save"
  /\ SaveModified(p, "cancel_reread")
  /\ UNCHANGED <<nextId, req, hvars>>

CancelReread(p) == Reread(p, "cancel_reread", 200)

\* ---------------------------------------------------------------------
\* Environment

\* the response is delivered; the handler is free for the next request
Complete(p) ==
  /\ pc[p] = "done"
  /\ pc' = [pc EXCEPT ![p] = "idle"]
  /\ req' = [req EXCEPT ![p] = NoReq]
  /\ doc' = [doc EXCEPT ![p] = NoDoc]
  /\ resp' = [resp EXCEPT ![p] = NoResp]
  /\ ops' = [ops EXCEPT ![p] = <<>>]
  /\ UNCHANGED <<store, nextId, hvars>>

Next ==
  \/ \E p \in Procs : List(p)
  \/ \E p \in Procs, e \in EventIdInputs : ListByEvent(p, e)
  \/ \E p \in Procs, id \in SlotIdInputs : Get(p, id)
  \/ \E p \in Procs, body \in CreateBodies, user \in Admins : CreateStart(p, body, user)
  \/ \E p \in Procs : CreateSave(p)
  \/ \E p \in Procs : CreateReread(p)
  \/ \E p \in Procs, id \in SlotIdInputs, body \in UpdateBodies, user \in Admins :
        UpdateRead(p, id, body, user)
  \/ \E p \in Procs : UpdateSave(p)
  \/ \E p \in Procs : UpdateReread(p)
  \/ \E p \in Procs, id \in SlotIdInputs, user \in Admins : DeleteRead(p, id, user)
  \/ \E p \in Procs : DeleteRemove(p)
  \/ \E p \in Procs, id \in SlotIdInputs, body \in BookBodies : BookRead(p, id, body)
  \/ \E p \in Procs : BookSave(p)
  \/ \E p \in Procs : BookReread(p)
  \/ \E p \in Procs, id \in SlotIdInputs, user \in Admins : CancelRead(p, id, user)
  \/ \E p \in Procs : CancelSave(p)
  \/ \E p \in Procs : CancelReread(p)
  \/ \E p \in Procs : Complete(p)

Spec == Init /\ [][Next]_vars

\* ---------------------------------------------------------------------
\* The conversion and the normalization on their own: a time string or a
\* date goes through the helper the way Create and Update put it through

Pad2(n) == IF n < 10 THEN <<"0">> \o NatToStr(n) ELSE NatToStr(n)

MinuteSamples == 0..59

\* "H:MM" and "HH:MM" for every hour of the day
Times24 ==
  {IntToStr(h) \o <<":">> \o Pad2(m) : h \in 0..23, m \in MinuteSamples}
  \cup {Pad2(h) \o <<":">> \o Pad2(m) : h \in 0..9, m \in MinuteSamples}

\* "h:MM AM" and "h:MM PM" for every hour of the dial
Times12 ==
  {IntToStr(h) \o <<":">> \o Pad2(m) \o <<" ">> \o ap :
     h \in 1..12, m \in MinuteSamples, ap \in {<<"A", "M">>, <<"P", "M">>}}

InitTime ==
  /\ InitService
  /\ timeIn \in Times24 \cup Times12
  /\ timeOut = <<>>
  /\ dateIn = Null
  /\ dateOut = Null

\* startTime = convertTo12Hour(startTime)
ConvertTime ==
  /\ timeOut = <<>>
  /\ timeOut' = convertTo12Hour(timeIn)
  /\ UNCHANGED <<svars, timeIn, dateIn, dateOut>>

NextTime == ConvertTime

SpecTime == InitTime /\ [][NextTime]_vars

YearSamples == {50, 1970, 2024}

DaySamples == {<<1, 1>>, <<3, 1>>, <<12, 31>>}

ClockSamples == {<<0, 0>>, <<23, 30>>}

OffsetSamples == {-300, 0, 330}

\* ISO 8601 strings with an explicit offset, and a string that is no date
DateStrings ==
  {D(y, md[1], md[2], c[1], c[2], off) :
     y \in YearSamples, md \in DaySamples, c \in ClockSamples, off \in OffsetSamples}
  \cup {[wellFormed |-> FALSE, y |-> 0, m |-> 0, d |-> 0, hh |-> 0, mi |-> 0, off |-> 0]}

InitDate ==
  /\ InitService
  /\ timeIn = <<>>
  /\ timeOut = <<>>
  /\ dateIn \in DateStrings
  /\ dateOut = Null

\* date = normalizeDate(date)
NormalizeDate ==
  /\ dateOut = Null
  /\ dateOut' = normalizeDate(dateIn)
  /\ UNCHANGED <<svars, timeIn, timeOut, dateIn>>

\* the stored date is sent back as the date of an update
NormalizeAgain ==
  /\ dateOut # Null
  /\ dateOut.valid
  /\ dateIn' = ToIsoInput(dateOut)
  /\ dateOut' = Null
  /\ UNCHANGED <<svars, timeIn, timeOut>>

NextDate == NormalizeDate \/ NormalizeAgain

SpecDate == InitDate /\ [][NextDate]_vars

\* =====================================================================
\* Properties

\* handler p takes up a request of this kind in the step
Starts(p, kind) == pc[p] = "idle" /\ req'[p].kind = kind

\* handler p's save writes the document in the step
Saves(p, at) ==
  pc[p] = at /\ pc'[p] # at /\ doc[p] # NoDoc /\ ValidPaths(doc[p])
  /\ store[req[p].id] # Null

\* slot id was stored and has been deleted
Deleted(id) == id \in 1..nextId /\ store[id] = Null

\* ---------------------------------------------------------------------
\* C1: in every reachable state every stored slot has bookedBy populated
\* if and only if its status is 'booked'.
C1_BookedByIffBooked ==
  \A i \in 1..MaxSlots :
     store[i] # Null => (store[i].bookedBy # Null <=> store[i].status = "booked")

\* a Cancel has succeeded on a slot that a Book had booked
C1_Witness ==
  \E p \in Procs :
     /\ pc[p] = "done" /\ req[p].kind = "cancel" /\ resp[p].code = 200
     /\ store[req[p].id] # Null
     /\ store[req[p].id].status = "available"

\* ---------------------------------------------------------------------
\* C2 as stated: the save of a Book stores status 'booked' and bookedBy
\* equal to the name, email and enrollment exactly as the request supplied
\* them; a Book that reads a booked slot is answered 400.
C2_Original ==
  [][\A p \in Procs :
       /\ Saves(p, "book_save") =>
            /\ store'[req[p].id].status = "booked"
            /\ store'[req[p].id].bookedBy.name = req[p].body.name
            /\ store'[req[p].id].bookedBy.email = req[p].body.email
            /\ store'[req[p].id].bookedBy.enrollment = req[p].body.enrollment
       /\ (Starts(p, "book") /\ ~MissingBookField(req'[p].body)
           /\ Found(req'[p].id) /\ store[req'[p].id].status = "booked") =>
            resp'[p].code = 400 /\ pc'[p] = "done" /\ store' = store]_vars

\* C2 amended: the save of a Book stores status 'booked' and bookedBy equal
\* to the supplied name, email and enrollment with their surrounding blanks
\* trimmed, together with the time of booking; a Book with all three fields
\* that reads a slot whose status is 'booked' is answered 400 and writes
\* nothing.
C2_BookThenRebook ==
  [][\A p \in Procs :
       /\ Saves(p, "book_save") =>
            /\ store'[req[p].id].status = "booked"
            /\ store'[req[p].id].bookedBy.name = Trim(req[p].body.name)
            /\ store'[req[p].id].bookedBy.email = Trim(req[p].body.email)
            /\ store'[req[p].id].bookedBy.enrollment = Trim(req[p].body.enrollment)
            /\ store'[req[p].id].bookedBy.bookedAt = Timestamp
       /\ (Starts(p, "book") /\ ~MissingBookField(req'[p].body)
           /\ Found(req'[p].id) /\ store[req'[p].id].status = "booked") =>
            resp'[p].code = 400 /\ pc'[p] = "done" /\ store' = store]_vars

\* a complete Book has been answered 400 on a slot that is booked
C2_Witness ==
  \E p \in Procs :
     /\ pc[p] = "done" /\ req[p].kind = "book" /\ resp[p].code = 400
     /\ ~MissingBookField(req[p].body)
     /\ Found(req[p].id)
     /\ store[req[p].id].status = "booked"
     /\ store[req[p].id].bookedBy.name = <<"b", "o">>

\* ---------------------------------------------------------------------
\* C3: the save of a Cancel sets status 'available' and leaves no bookedBy
\* at all; a Cancel that reads a slot whose status is 'available' is
\* answered 400.
C3_CancelClears ==
  [][\A p \in Procs :
       /\ Saves(p, "cancel_save") =>
            /\ store'[req[p].id].status = "available"
            /\ store'[req[p].id].bookedBy = Null
       /\ (Starts(p, "cancel") /\ Found(req'[p].id)
           /\ store[req'[p].id].status = "available") =>
            resp'[p].code = 400 /\ pc'[p] = "done" /\ store' = store]_vars

\* a Cancel has been answered 400 on a slot that a Cancel made available
C3_Witness ==
  \E p, q \in Procs :
     /\ pc[p] = "done" /\ req[p].kind = "cancel" /\ resp[p].code = 400
     /\ pc[q] = "done" /\ req[q].kind = "cancel" /\ resp[q].code = 200
     /\ req[p].id = req[q].id
     /\ resp[q].body # Null
     /\ resp[q].body.status = "available"
     /\ resp[q].body.bookedBy = Null

\* ---------------------------------------------------------------------
\* C4: a Book that read 'available' and saves after another Book has
\* already booked the slot overwrites that booking: the stored bookedBy
\* becomes its own, and it goes on to answer success.
C4_LastBookingWins ==
  [][\A p \in Procs :
       (Saves(p, "book_save") /\ store[req[p].id].status = "booked") =>
          /\ store'[req[p].id].bookedBy = doc[p].bookedBy
          /\ pc'[p] = "book_reread"]_vars

\* two Books on one slot have both answered 200, for different people, and
\* the store holds the booking of one of them only
C4_Witness ==
  \E p, q \in Procs :
     /\ p # q
     /\ pc[p] = "done" /\ req[p].kind = "book" /\ resp[p].code = 200
     /\ pc[q] = "done" /\ req[q].kind = "book" /\ resp[q].code = 200
     /\ req[p].id = req[q].id
     /\ req[p].body.name # req[q].body.name
     /\ store[req[p].id] # Null
     /\ store[req[p].id].bookedBy # Null
     /\ store[req[p].id].bookedBy.name = Trim(req[q].body.name)

\* ---------------------------------------------------------------------
\* C5: a Create with eventId, date, startTime, endTime or purpose missing
\* is answered 400 and issues no store operation: no Event lookup, no Slot
\* read, no Slot write; the stored slots are unchanged.
C5_MissingFieldNoStore ==
  [][\A p \in Procs :
       (/\ Starts(p, "create")
        /\ \/ req'[p].body.eventId = ""
           \/ req'[p].body.date = Null
           \/ \E f \in {"startTime", "endTime", "purpose"} : req'[p].body[f] = <<>>) =>
          /\ resp'[p].code = 400
          /\ pc'[p] = "done"
          /\ ops'[p] = <<>>
          /\ store' = store
          /\ nextId' = nextId]_vars

\* a Create without purpose has been answered 400
C5_Witness ==
  \E p \in Procs :
     /\ pc[p] = "done" /\ req[p].kind = "create" /\ resp[p].code = 400
     /\ req[p].body.purpose = <<>>
     /\ ops[p] = <<>>

\* ---------------------------------------------------------------------
\* C6: a Create with every field present whose eventId is the id of no
\* existing Event is answered 404 and stores no slot.
C6_UnknownEvent404 ==
  [][\A p \in Procs :
       (Starts(p, "create") /\ ~MissingCreateField(req'[p].body)
        /\ req'[p].body.eventId \notin ExistingEvents) =>
          /\ resp'[p].code = 404
          /\ pc'[p] = "done"
          /\ store' = store]_vars

\* ---------------------------------------------------------------------
\* C7 as stated: a Delete that answers success has removed the slot, a
\* removed slot stays removed, and every Get, Update, Book, Cancel and
\* Delete on its id is answered 404.
C7_Original ==
  [][/\ \A p \in Procs :
          (pc[p] = "delete_remove" /\ pc'[p] = "done" /\ resp'[p].code = 200) =>
             Deleted(req[p].id)'
     /\ \A i \in 1..MaxSlots : Deleted(i) => Deleted(i)'
     /\ \A p \in Procs :
          (/\ \E k \in {"get", "update", "book", "cancel", "delete"} : Starts(p, k)
           /\ Deleted(req'[p].id)) =>
             resp'[p].code = 404 /\ pc'[p] = "done"]_vars

\* C7 amended: a Delete that answers success has removed the slot, a
\* removed slot stays removed, and every Get, Update, Cancel and Delete on
\* its id, and every Book on its id that carries name, email and
\* enrollment, is answered 404 (a Book lacking one of them is answered 400
\* before the slot is looked up).
C7_DeletedStaysGone ==
  [][/\ \A p \in Procs :
          (pc[p] = "delete_remove" /\ pc'[p] = "done" /\ resp'[p].code = 200) =>
             Deleted(req[p].id)'
     /\ \A i \in 1..MaxSlots : Deleted(i) => Deleted(i)'
     /\ \A p \in Procs :
          (/\ \E k \in {"get", "update", "book", "cancel", "delete"} : Starts(p, k)
           /\ Deleted(req'[p].id)
           /\ (Starts(p, "book") => ~MissingBookField(req'[p].body))) =>
             resp'[p].code = 404 /\ pc'[p] = "done"]_vars

\* after a Delete answered 200, a Get of the same id has been answered 404
C7_Witness ==
  \E p, q \in Procs :
     /\ pc[p] = "done" /\ req[p].kind = "delete" /\ resp[p].code = 200
     /\ pc[q] = "done" /\ req[q].kind = "get" /\ resp[q].code = 404
     /\ req[q].id = req[p].id
     /\ Deleted(req[p].id)

\* ---------------------------------------------------------------------
\* C8: the startTime and endTime of every stored slot match the 12-hour
\* pattern, whether the request gave the time in 24-hour or 12-hour form.
C8_StoredTimesMatch ==
  \A i \in 1..MaxSlots :
     store[i] # Null =>
        MatchesTimePattern(store[i].startTime) /\ MatchesTimePattern(store[i].endTime)

\* a slot is stored, and a write that gave the time in 12-hour form has
\* been answered
C8_Witness ==
  \E p \in Procs, i \in 1..MaxSlots :
     /\ store[i] # Null
     /\ store[i].startTime = <<"2", ":", "3", "0", " ", "P", "M">>
     /\ pc[p] = "done" /\ req[p].kind = "create"
     /\ resp[p].code = 500
     /\ req[p].body.startTime = <<"2", ":", "3", "0", " ", "P", "M">>

\* ---------------------------------------------------------------------
\* C9: a time that is already in 12-hour format comes out of the
\* conversion unchanged.
C9_ConversionIdempotent ==
  (timeOut # <<>> /\ MatchesTimePattern(timeIn)) => timeOut = timeIn

\* ---------------------------------------------------------------------
\* C10: the normalized date is midnight UTC of the UTC calendar day of the
\* instant the input denotes, whatever its offset, and the date returned
\* is that day; a date that is already normalized stays as it is.
C10_UtcDayOfInput ==
  (dateOut # Null /\ dateOut.valid) =>
     /\ dateOut.t = (ParseDate(dateIn).t \div MinutesPerDay) * MinutesPerDay
     /\ IsoDay(dateOut) = CivilFromDays(ParseDate(dateIn).t \div MinutesPerDay)

\* ---------------------------------------------------------------------
\* C11: the save of an Update changes, in the slot it addresses, only
\* those of date, startTime, endTime and purpose that the request carries;
\* the fields the request omits, and status, bookedBy, eventId and
\* createdBy in every case, keep the value they had before the save, and
\* no other slot changes.
C11_UpdateFrame ==
  [][\A p \in Procs :
        (pc[p] = "update_save" /\ pc'[p] = "update_reread") =>
           LET id == req[p].id
               body == req[p].body
               Supplied(f) ==
                 /\ f \in {"date", "startTime", "endTime", "purpose"}
                 /\ IF f = "date" THEN body.date # Null ELSE body[f] # <<>>
           IN  \A i \in 1..MaxSlots :
                  IF i # id \/ store[i] = Null
                    THEN store'[i] = store[i]
                    ELSE /\ store'[i] # Null
                         /\ \A f \in DOMAIN store[i] :
                               ~Supplied(f) => store'[i][f] = store[i][f]]_vars

\* an Update of a booked slot has been answered: its response shows the
\* booking that the Book before it answered with, and another date
C11_Witness ==
  \E p, q \in Procs :
     /\ pc[p] = "done" /\ req[p].kind = "update" /\ resp[p].code = 200
     /\ pc[q] = "done" /\ req[q].kind = "book" /\ resp[q].code = 200
     /\ req[p].id = req[q].id
     /\ resp[p].body # Null /\ resp[q].body # Null
     /\ resp[p].body.status = "booked"
     /\ resp[p].body.bookedBy = resp[q].body.bookedBy
     /\ resp[p].body.date # resp[q].body.date

\* ---------------------------------------------------------------------
\* C12: every operation performs at most two store round-trips from
\* request to response, counting Event lookups, Slot reads, Slot saves
\* and Slot deletes.
C12_Original ==
  \A p \in Procs : Len(ops[p]) <= 2

\* C12, as the handlers behave: List, Get and Delete perform at most two
\* round trips; Create, Update, Book and Cancel perform up to four (the
\* Event lookup or Slot read, the save, the re-read of the slot and the
\* Event lookup that expands it), and one that answers with the slot at
\* least three.
C12_RoundTripsByKind ==
  \A p \in Procs :
     LET writes == req[p].kind \in {"create", "update", "book", "cancel"}
     IN  /\ Len(ops[p]) <= (IF writes THEN 4 ELSE 2)
         /\ (writes /\ pc[p] = "done" /\ resp[p].body # Null)
               => Len(ops[p]) >= 3

\* a Create has answered 201 after four round trips
C12_Witness ==
  \E p \in Procs :
     /\ pc[p] = "done" /\ req[p].kind = "create" /\ resp[p].code = 201
     /\ ops[p] = <<"Event.findById", "Slot.save", "Slot.findById", "populate">>

\* ---------------------------------------------------------------------
\* C13: a slot enters the store with status 'available' and no bookedBy,
\* whatever the body of its Create carries; the status of a stored slot
\* changes from 'available' to 'booked' only in the save of a Book on
\* that slot, and from 'booked' to 'available' only in the save of a
\* Cancel on that slot; no other step changes it.
C13_Lifecycle ==
  [][\A i \in 1..MaxSlots :
        /\ (store[i] = Null /\ store'[i] # Null) =>
              (store'[i].status = "available" /\ store'[i].bookedBy = Null)
        /\ (store[i] # Null /\ store'[i] # Null
              /\ store'[i].status # store[i].status) =>
              \E p \in Procs :
                 /\ req[p].id = i
                 /\ IF store'[i].status = "booked"
                      THEN /\ req[p].kind = "book"
                           /\ pc[p] = "book_save" /\ pc'[p] = "book_reread"
                      ELSE /\ req[p].kind = "cancel"
                           /\ pc[p] = "cancel_save" /\ pc'[p] = "cancel_reread"]_vars

\* a Create whose body carried status 'booked' and a bookedBy has
\* answered with an available slot, which a Book has since booked
C13_Witness ==
  \E p, q \in Procs :
     /\ pc[p] = "done" /\ req[p].kind = "create" /\ resp[p].code = 201
     /\ req[p].body.status = "booked" /\ req[p].body.bookedBy # Null
     /\ resp[p].body # Null
     /\ resp[p].body.status = "available" /\ resp[p].body.bookedBy = Null
     /\ pc[q] = "done" /\ req[q].kind = "book" /\ resp[q].code = 200
     /\ req[q].id = req[p].id
     /\ store[req[p].id] # Null /\ store[req[p].id].status = "booked"

\* ---------------------------------------------------------------------
\* C14: for every 24-hour input "H:MM" (also written "0H:MM") with H in
\* 0..23 and MM in 00..59 the conversion returns "<h>:MM <P>", where P is
\* "PM" exactly when H >= 12, h is H mod 12 with 0 replaced by 12, and MM
\* is the input's minutes.
C14_TwentyFourHourInput ==
  \A h \in 0..23, m \in 0..59 :
     (timeOut # <<>>
        /\ timeIn \in {IntToStr(h) \o <<":">> \o Pad2(m),
                       Pad2(h) \o <<":">> \o Pad2(m)}) =>
        /\ timeOut = IntToStr(IF h % 12 = 0 THEN 12 ELSE h % 12)
                       \o <<":">> \o Pad2(m) \o <<" ">>
                       \o (IF h >= 12 THEN <<"P", "M">> ELSE <<"A", "M">>)
        /\ MatchesTimePattern(timeOut)

\* "00:05" has been converted to "12:05 AM"
C14_Witness ==
  /\ timeIn = <<"0", "0", ":", "0", "5">>
  /\ timeOut = <<"1", "2", ":", "0", "5", " ", "A", "M">>

\* ---------------------------------------------------------------------
\* C15: a request that is answered 400 or 404 leaves the store as it was:
\* the step that answers is the request's only step, it writes nothing
\* and it has issued neither a save nor a delete.
C15_RejectedLeavesStore ==
  [][\A p \in Procs :
        (pc[p] # "done" /\ pc'[p] = "done" /\ resp'[p].code \in {400, 404}) =>
           /\ pc[p] = "idle"
           /\ store' = store /\ nextId' = nextId
           /\ \A k \in 1..Len(ops'[p]) :
                 ops'[p][k] \notin {"Slot.save", "Slot.deleteOne"}]_vars

\* a Book with its three fields has been answered 400 on a slot that
\* still holds the booking of another booker, and a Cancel has been
\* answered 400
C15_Witness ==
  \E p, q \in Procs :
     /\ pc[p] = "done" /\ req[p].kind = "book" /\ resp[p].code = 400
     /\ req[p].body.name # <<>> /\ req[p].body.email # <<>>
     /\ req[p].body.enrollment # <<>>
     /\ store[req[p].id] # Null
     /\ store[req[p].id].status = "booked"
     /\ store[req[p].id].bookedBy.name # Trim(req[p].body.name)
     /\ pc[q] = "done" /\ req[q].kind = "cancel" /\ resp[q].code = 400
     /\ req[q].id = req[p].id

\* ---------------------------------------------------------------------
\* C16: whenever a Book answers with success, the slot in its response
\* has status 'booked' and the bookedBy identity (name, email, enrollment,
\* as stored, that is trimmed) that this same request supplied, whatever
\* other requests on the slot ran between its save and its re-read.
C16_BookAnswersOwnBooking ==
  \A p \in Procs :
     (pc[p] = "done" /\ req[p].kind = "book" /\ resp[p].code = 200) =>
        /\ resp[p].body # Null
        /\ resp[p].body.status = "booked"
        /\ resp[p].body.bookedBy # Null
        /\ resp[p].body.bookedBy.name = Trim(req[p].body.name)
        /\ resp[p].body.bookedBy.email = Trim(req[p].body.email)
        /\ resp[p].body.bookedBy.enrollment = Trim(req[p].body.enrollment)

====
